---- MODULE Spec2Model ----
(***************************************************************************)
(* Model of RNb-NeuS2 scripts/preprocess.py: the VisualSFM camera-file     *)
(* parser (Dataset.parse_camera_parameters) and the asset repacker         *)
(* (NeuS_to_NeuS2).  Floats are modelled by integers, an image by its      *)
(* dtype depth and one pixel.                                              *)
(***************************************************************************)
EXTENDS Integers, Sequences, FiniteSets, TLC

(* ------------------------------ bounds --------------------------------- *)
\* longest camera file, in blocks (a record, a blank line or a comment line)
MaxBlocks == 3
\* most entries a mask directory listing holds as *.png files
MaxViews == 2
\* most invocations of the converter over the same folders
MaxRuns == 2

(* ------------------------- program constants --------------------------- *)
MaskThreshold8 == 125
MaskThreshold16 == 30000
MaxU16 == 65535
MaxU8 == 255
\* lines[current_idx - 7]
CBackOffset == 7

(* ------------------------- camera file lines --------------------------- *)
\* A line is its kind and, for a numeric line, its whitespace-separated tokens.
BlankLine == [k |-> "blank", t |-> <<>>]
HashLine == [k |-> "hash", t |-> <<>>]
MarkerLine == [k |-> "marker", t |-> <<>>]
TextLine == [k |-> "text", t |-> <<>>]
Nums(ts) == [k |-> "nums", t |-> ts]

\* The calibrated cameras the files are written from.
Cams ==
  << [f |-> 2, px |-> 3, py |-> 4, T |-> <<1, 2, 3>>, C |-> <<4, 5, 6>>,
      R |-> << <<1, 0, 0>>, <<0, 1, 0>>, <<0, 0, 1>> >>],
     [f |-> 5, px |-> 6, py |-> 7, T |-> <<7, 8, 9>>, C |-> <<1, 0, 2>>,
      R |-> << <<0, -1, 0>>, <<1, 0, 0>>, <<0, 0, 1>> >>] >>

NCams == Len(Cams)

\* The 13 lines VisualSFM writes for one camera.
RecordLines(c) ==
  << TextLine, TextLine, Nums(<<c.f>>), Nums(<<c.px, c.py>>), Nums(c.T), Nums(c.C),
     Nums(<<0, 0, 0>>), Nums(<<1, 0, 0, 0>>),
     Nums(c.R[1]), Nums(c.R[2]), Nums(c.R[3]),
     Nums(<<0>>), Nums(<<0, 0, 0>>) >>

RecordKinds == {"good", "noSep", "badFocal", "badT", "badRot", "short"}

\* A malformed record is written once (from the first camera); a well-formed
\* one from any camera, so that file order shows in the result.
BlockSet ==
  [kind : {"good", "noSep"}, cam : 1..NCams]
    \cup {[kind |-> k, cam |-> 1] : k \in {"badFocal", "badT", "badRot", "short", "blank", "hash"}}

BlockLines(b) ==
  LET r == RecordLines(Cams[b.cam]) IN
  CASE b.kind = "good" -> r \o <<BlankLine>>
    [] b.kind = "noSep" -> r
    [] b.kind = "badFocal" -> [r EXCEPT ![3] = TextLine] \o <<BlankLine>>
    [] b.kind = "badT" -> [r EXCEPT ![5] = Nums(<<1, 2>>)] \o <<BlankLine>>
    [] b.kind = "badRot" -> [r EXCEPT ![10] = Nums(<<1, 2>>)] \o <<BlankLine>>
    [] b.kind = "short" -> SubSeq(r, 1, 6)
    [] b.kind = "blank" -> <<BlankLine>>
    [] b.kind = "hash" -> <<HashLine>>

RECURSIVE Flatten(_)
Flatten(bs) == IF bs = <<>> THEN <<>> ELSE BlockLines(Head(bs)) \o Flatten(Tail(bs))

HeaderLines(declared) == <<HashLine, MarkerLine, Nums(<<declared>>)>>

FileLines(declared, bs) == HeaderLines(declared) \o Flatten(bs)

BlockSeqs == UNION {[1..n -> BlockSet] : n \in 0..MaxBlocks}

InsertAt(ls, p, l) == SubSeq(ls, 1, p) \o <<l>> \o SubSeq(ls, p + 1, Len(ls))

IsRecord(b) == b.kind \in RecordKinds

\* Every record is complete and followed by its separator line, except that
\* the last line of the file may be the last line of a record.
WellFormed(bs) ==
  /\ \E i \in 1..Len(bs) : IsRecord(bs[i])
  /\ \A i \in 1..Len(bs) :
       \/ bs[i].kind \in {"good", "blank", "hash"}
       \/ bs[i].kind = "noSep" /\ i = Len(bs)

RecordCams(bs) == SelectSeq(bs, IsRecord)

(* ------------------------------ matrices ------------------------------- *)
Dot(u, v) == u[1] * v[1] + u[2] * v[2] + u[3] * v[3]

\* The principal point written into the wrong rows.
IntrinsicSwapped(focal, px, py) ==
  << <<focal, 0, py, 0>>, <<0, focal, px, 0>>, <<0, 0, 1, 0>>, <<0, 0, 0, 1>> >>

Intrinsic(focal, px, py) ==
  << <<focal, 0, px, 0>>, <<0, focal, py, 0>>, <<0, 0, 1, 0>>, <<0, 0, 0, 1>> >>

Pose(R, C) ==
  << <<R[1][1], R[1][2], R[1][3], -Dot(R[1], C)>>,
     <<R[2][1], R[2][2], R[2][3], -Dot(R[2], C)>>,
     <<R[3][1], R[3][2], R[3][3], -Dot(R[3], C)>>,
     <<0, 0, 0, 1>> >>

(* ------------------------------- state --------------------------------- *)
VARIABLES
  cameras_file,        \* cameras_v2.txt: declared count, blocks, an inserted line
  inputFolder,         \* the mask, normal, albedo and mask-certainty directories
  numpy_promotes,      \* uint8 array * 65535 promotes to uint16 (else OverflowError)
  pc, err, runs,
  last_exit,           \* how the previous invocation ended
  lines,               \* f.readlines() while the parser runs
  n_images, n_cameras, current_idx, focal_lengths, intrinsics_all, pose_all,
  prev_parse,          \* the lists of the parse before the file was edited
  all_images_albedo, all_images_normal, all_masks, all_masks_certainty,
  certainty_is_mask, i, HW,
  albedos_out, normals_out, transform_json

envVars == <<inputFolder, numpy_promotes>>
parseVars == <<lines, n_images, n_cameras, current_idx, focal_lengths, intrinsics_all, pose_all>>
listVars == <<all_images_albedo, all_images_normal, all_masks, all_masks_certainty,
              certainty_is_mask>>
outVars == <<albedos_out, normals_out, transform_json>>
vars == <<cameras_file, envVars, pc, err, runs, last_exit, parseVars, prev_parse, listVars, i, HW, outVars>>

(* --------------------- Dataset.parse_camera_parameters ----------------- *)
\* The text of cameras_v2.txt.
FileContent ==
  LET base == FileLines(cameras_file.declared, cameras_file.blocks) IN
  IF cameras_file.ins = <<>> THEN base
  ELSE InsertAt(base, cameras_file.ins[1], cameras_file.ins[2])

\* lines[idx], idx counted from 0 as in the source
LineAt(idx) == lines[idx + 1]
InFile(idx) == idx < Len(lines)

\* list(map(float, line.strip().split())) raises on a non-numeric token
FloatsOK(l) == l.k \in {"nums", "blank"}
Floats(l) == IF l.k = "nums" THEN l.t ELSE <<>>
\* float(line.strip())
FloatOK(l) == l.k = "nums" /\ Len(l.t) = 1
\* R[i] = np.array([...]) : three values, or one value broadcast to the row
RowOK(l) == FloatsOK(l) /\ Len(Floats(l)) \in {1, 3}
Row(l) == IF Len(Floats(l)) = 1 THEN <<l.t[1], l.t[1], l.t[1]>> ELSE Floats(l)

\* Only blank lines skipped.
SkippableBlankOnly(l) == l.k = "blank"

\* not lines[current_idx].strip() or lines[current_idx].startswith('#')
Skippable(l) == l.k = "blank" \/ l.k \in {"hash", "marker"}

\* The line the source re-reads as the camera position.
CLineIndex(idx) == idx - CBackOffset

\* The body of the try block for the record starting at line s: whether it
\* completed, where current_idx stood, and what was appended to each list.
TryRecord(s) ==
  LET fail(idx, fs, ks) == [ok |-> FALSE, idx |-> idx, focals |-> fs, intr |-> ks, pose |-> <<>>]
  IN
  IF ~(InFile(s + 2) /\ FloatOK(LineAt(s + 2))) THEN fail(s + 2, <<>>, <<>>)
  ELSE LET focal == LineAt(s + 2).t[1] IN
  IF ~(InFile(s + 3) /\ FloatsOK(LineAt(s + 3)) /\ Len(Floats(LineAt(s + 3))) = 2)
  THEN fail(s + 3, <<focal>>, <<>>)
  ELSE LET px == LineAt(s + 3).t[1]
           py == LineAt(s + 3).t[2] IN
  IF ~(\A r \in 0..2 : InFile(s + 8 + r) /\ RowOK(LineAt(s + 8 + r)))
  THEN fail(s + 8, <<focal>>, <<>>)
  ELSE LET R == <<Row(LineAt(s + 8)), Row(LineAt(s + 9)), Row(LineAt(s + 10))>>
           C_line == LineAt(CLineIndex(s + 11)) IN
  IF ~FloatsOK(C_line) THEN fail(s + 11, <<focal>>, <<>>)
  ELSE LET C == Floats(C_line)
           intrinsic == Intrinsic(focal, px, py) IN
  IF Len(C) # 3 THEN fail(s + 14, <<focal>>, <<intrinsic>>)
  ELSE [ok |-> TRUE, idx |-> s + 14, focals |-> <<focal>>, intr |-> <<intrinsic>>,
        pose |-> <<Pose(R, C)>>]

\* Dataset.__init__ up to the call of parse_camera_parameters
DatasetInit ==
  /\ pc = "Dataset"
  /\ n_images' = Cardinality({j \in 1..Len(inputFolder.mask) : inputFolder.mask[j].png})
  /\ intrinsics_all' = <<>>
  /\ pose_all' = <<>>
  /\ focal_lengths' = <<>>
  /\ lines' = FileContent
  /\ pc' = "find_start"
  /\ UNCHANGED <<cameras_file, last_exit, envVars, err, runs, n_cameras, current_idx, prev_parse,
                 listVars, i, HW, outVars>>

\* The marker search: the count line follows the marker, the records follow it.
FindStart ==
  /\ pc = "find_start"
  /\ LET found == {j \in 0..(Len(lines) - 1) : LineAt(j).k = "marker"} IN
     IF found = {} THEN
       /\ current_idx' = 0
       /\ pc' = "parse_loop"
       /\ UNCHANGED <<n_cameras, err>>
     ELSE LET m == CHOOSE j \in found : \A j2 \in found : j <= j2 IN
       IF InFile(m + 1) /\ FloatOK(LineAt(m + 1)) THEN
         /\ n_cameras' = LineAt(m + 1).t[1]
         /\ current_idx' = m + 2
         /\ pc' = "parse_loop"
         /\ err' = err
       ELSE
         /\ pc' = "raised"
         /\ err' = IF InFile(m + 1) THEN "ValueError" ELSE "IndexError"
         /\ UNCHANGED <<n_cameras, current_idx>>
  /\ UNCHANGED <<cameras_file, last_exit, envVars, runs, lines, n_images, focal_lengths,
                 intrinsics_all, pose_all, prev_parse, listVars, i, HW, outVars>>

\* One pass of the while loop over a blank or comment line.
SkipLine ==
  /\ pc = "parse_loop"
  /\ InFile(current_idx)
  /\ Skippable(LineAt(current_idx))
  /\ current_idx' = current_idx + 1
  /\ UNCHANGED <<cameras_file, last_exit, envVars, pc, err, runs, lines, n_images, n_cameras,
                 focal_lengths, intrinsics_all, pose_all, prev_parse, listVars, i, HW, outVars>>

\* One pass of the while loop over a record; an exception breaks the loop.
ParseRecord ==
  /\ pc = "parse_loop"
  /\ InFile(current_idx)
  /\ ~Skippable(LineAt(current_idx))
  /\ LET r == TryRecord(current_idx) IN
       /\ current_idx' = r.idx
       /\ focal_lengths' = focal_lengths \o r.focals
       /\ intrinsics_all' = intrinsics_all \o r.intr
       /\ pose_all' = pose_all \o r.pose
       /\ pc' = IF r.ok THEN "parse_loop" ELSE "parse_end"
  /\ UNCHANGED <<cameras_file, last_exit, envVars, err, runs, lines, n_images, n_cameras, prev_parse,
                 listVars, i, HW, outVars>>

\* The while condition fails: the end of the file.
EndOfFile ==
  /\ pc = "parse_loop"
  /\ ~InFile(current_idx)
  /\ pc' = "parse_end"
  /\ UNCHANGED <<cameras_file, last_exit, envVars, err, runs, parseVars, prev_parse, listVars, i, HW,
                 outVars>>

\* np.linalg.inv of the stacked intrinsics: an empty stack or a zero focal raises.
InvRaises(ks) == ks = <<>> \/ \E j \in 1..Len(ks) : ks[j][1][1] = 0

\* The count check that ends the parse.
CountMismatch(n_pose, n_img) == n_pose # n_img

\* What follows the loop: the array conversions and the count check.
ParseEnd ==
  /\ pc = "parse_end"
  /\ IF InvRaises(intrinsics_all) THEN pc' = "raised" /\ err' = "LinAlgError"
     ELSE IF CountMismatch(Len(pose_all), n_images) THEN pc' = "raised" /\ err' = "ValueError"
     ELSE pc' = "listdir" /\ err' = err
  /\ lines' = <<>>
  /\ UNCHANGED <<cameras_file, last_exit, envVars, runs, n_images, n_cameras, current_idx, focal_lengths,
                 intrinsics_all, pose_all, prev_parse, listVars, i, HW, outVars>>

(* ------------------------------- images -------------------------------- *)
\* An image is its dtype depth (8: uint8, 16: uint16) and the channels of a pixel.
MaskPool ==
  << [depth |-> 8, px |-> <<126>>], [depth |-> 8, px |-> <<125>>],
     [depth |-> 8, px |-> <<126, 0, 0>>], [depth |-> 16, px |-> <<30001>>],
     [depth |-> 16, px |-> <<30000>>], [depth |-> 16, px |-> <<30001, 0, 0>>] >>
NormalPool ==
  << [depth |-> 8, px |-> <<0, 128, 255>>], [depth |-> 16, px |-> <<1, 2, 3, 9>>] >>
AlbedoPool ==
  << [depth |-> 16, px |-> <<65535, 7, 0>>], [depth |-> 8, px |-> <<255, 1, 0, 4>>] >>

Pick(pool, j) == pool[(j % Len(pool)) + 1]

\* Sorted directory listings: nPng *.png masks, then the other files of mask/.
MaskDir(nPng, extra) ==
  [j \in 1..(nPng + extra) |->
     [name |-> <<"m", j>>, png |-> j <= nPng, img |-> Pick(MaskPool, j)]]
CertaintyDir(n) ==
  [j \in 1..n |-> [name |-> <<"u", j>>, png |-> TRUE, img |-> Pick(MaskPool, j + 3)]]
NormalDir(n) ==
  [j \in 1..n |-> [name |-> <<"n", j>>, png |-> TRUE, img |-> Pick(NormalPool, j)]]
AlbedoDir(n) ==
  [j \in 1..n |-> [name |-> <<"a", j>>, png |-> TRUE, img |-> Pick(AlbedoPool, j)]]

\* sorted(os.listdir(d))
ListDir(d) == [j \in 1..Len(d) |-> d[j].name]
\* cv2.imread(join(d, name), -1)
ImRead(d, name) == (CHOOSE e \in {d[j] : j \in 1..Len(d)} : e.name = name).img

\* The thresholds taken inclusively.
MaskBinaryInclusive(depth, v) ==
  IF depth = 8 THEN (IF v >= MaskThreshold8 THEN 1 ELSE 0)
  ELSE (IF v >= MaskThreshold16 THEN 1 ELSE 0)

\* np.where(msk > 125, 1.0, 0.0) for uint8, np.where(msk > 30000, 1.0, 0.0) otherwise
MaskBinary(depth, v) ==
  IF depth = 8 THEN (IF v > MaskThreshold8 THEN 1 ELSE 0)
  ELSE (IF v > MaskThreshold16 THEN 1 ELSE 0)

\* msk[:, :, 0] when multi-channel, the threshold, then (msk * (2**16 - 1)).astype(uint16)
RepackMask(img) == MaskBinary(img.depth, img.px[1]) * MaxU16

\* (img / 255 * (2**16 - 1)).astype(uint16) when uint8
Rescale(depth, v) == IF depth = 8 THEN (v * MaxU16) \div MaxU8 ELSE v

\* imread(...)[:, :, :3], rescaled
RGB16(img) == [c \in 1..3 |-> Rescale(img.depth, img.px[c])]

\* The mask channel put first.
ConcatAlphaFirst(rgb, alpha) == [depth |-> 16, px |-> <<alpha>> \o rgb]

\* np.concatenate([img, msk[:, :, np.newaxis]], axis=-1)
Concat(rgb, alpha) == [depth |-> 16, px |-> Append(rgb, alpha)]

\* (np.ones_like(img_normal) * (2**16 - 1)).astype(np.uint16)
WhiteRGB == <<MaxU16, MaxU16, MaxU16>>

\* cv2.imwrite(join(dir, name), image): the file of that name is replaced
ImWrite(dir, name, image) == (name :> image) @@ dir

\* The frames added to those of the file already there.
DumpJsonAppend(old, output) ==
  IF old = <<>> THEN output ELSE [output EXCEPT !.frames = old.frames \o output.frames]

\* json.dump(output, open(file_dir, 'w')): the file is rewritten
DumpJson(old, output) == output

(* ---------------------------- NeuS_to_NeuS2 ---------------------------- *)
\* The directory the confidence images are read from.
CertaintySource == IF certainty_is_mask THEN inputFolder.mask ELSE inputFolder.certainty
\* The listing the albedo names come from.
AlbedoListing ==
  IF inputFolder.albedo_exists THEN ListDir(inputFolder.albedo) ELSE ListDir(inputFolder.normal)

\* The directory listings and the creation of albedos/ and normals/.
ListDirs ==
  /\ pc = "listdir"
  /\ all_images_albedo' = AlbedoListing
  /\ all_images_normal' = ListDir(inputFolder.normal)
  /\ all_masks' = ListDir(inputFolder.mask)
  /\ certainty_is_mask' = ~inputFolder.certainty_exists
  /\ all_masks_certainty' =
       IF inputFolder.certainty_exists THEN ListDir(inputFolder.certainty)
       ELSE ListDir(inputFolder.mask)
  /\ i' = 0
  /\ pc' = "loop"
  /\ UNCHANGED <<cameras_file, last_exit, envVars, err, runs, parseVars, prev_parse, HW, outVars>>

\* The listings required to be as long as the mask listing.
NamesInRangeEqualLengths(k) ==
  /\ k < Len(all_masks)
  /\ Len(all_images_albedo) = Len(all_masks)
  /\ Len(all_images_normal) = Len(all_masks)
  /\ Len(all_masks_certainty) = Len(all_masks)

\* The four name lookups at the head of the loop body.
NamesInRange(k) ==
  /\ k < Len(all_images_albedo)
  /\ k < Len(all_images_normal)
  /\ k < Len(all_masks)
  /\ k < Len(all_masks_certainty)

\* The white albedo is made from the normal image's dtype.
WhiteOverflows(k) ==
  /\ ~inputFolder.albedo_exists
  /\ ImRead(inputFolder.normal, all_images_normal[k + 1]).depth = 8
  /\ ~numpy_promotes

\* image_albedo of view k
ImageAlbedo(k) ==
  LET rgb == IF inputFolder.albedo_exists
             THEN RGB16(ImRead(inputFolder.albedo, all_images_albedo[k + 1]))
             ELSE WhiteRGB
      msk_certainty == RepackMask(ImRead(CertaintySource, all_masks_certainty[k + 1]))
  IN Concat(rgb, msk_certainty)

\* image_normal of view k
ImageNormal(k) ==
  LET rgb == RGB16(ImRead(inputFolder.normal, all_images_normal[k + 1]))
      msk == RepackMask(ImRead(inputFolder.mask, all_masks[k + 1]))
  IN Concat(rgb, msk)

\* The loop body of view i up to the write into albedos/.
LoopAlbedo ==
  /\ pc = "loop"
  /\ i < Len(all_masks)
  /\ IF ~NamesInRange(i) THEN
       /\ pc' = "raised" /\ err' = "IndexError"
       /\ UNCHANGED <<HW, outVars>>
     ELSE IF WhiteOverflows(i) THEN
       /\ pc' = "raised" /\ err' = "OverflowError"
       /\ UNCHANGED <<HW, outVars>>
     ELSE
       /\ albedos_out' = ImWrite(albedos_out, all_images_albedo[i + 1], ImageAlbedo(i))
       /\ HW' = <<1, 1>>
       /\ pc' = "loop_normal"
       /\ UNCHANGED <<err, normals_out, transform_json>>
  /\ UNCHANGED <<cameras_file, last_exit, envVars, runs, parseVars, prev_parse, listVars, i>>

\* The rest of the loop body: the write into normals/.
LoopNormal ==
  /\ pc = "loop_normal"
  /\ normals_out' = ImWrite(normals_out, all_images_normal[i + 1], ImageNormal(i))
  /\ i' = i + 1
  /\ pc' = "loop"
  /\ UNCHANGED <<cameras_file, last_exit, envVars, err, runs, parseVars, prev_parse, listVars, HW,
                 albedos_out, transform_json>>

\* Every frame given the first camera.
FrameFirstCamera(k) ==
  [albedo_path |-> <<"albedos", AlbedoListing[k + 1]>>,
   normal_path |-> <<"normals", ListDir(inputFolder.normal)[k + 1]>>,
   transform_matrix |-> pose_all[1],
   intrinsic_matrix |-> intrinsics_all[1]]

\* one_frame of view k, from the listings read again after the loop
Frame(k) ==
  [albedo_path |-> <<"albedos", AlbedoListing[k + 1]>>,
   normal_path |-> <<"normals", ListDir(inputFolder.normal)[k + 1]>>,
   transform_matrix |-> pose_all[k + 1],
   intrinsic_matrix |-> intrinsics_all[k + 1]]

\* np.eye(4)
Identity4 == << <<1, 0, 0, 0>>, <<0, 1, 0, 0>>, <<0, 0, 1, 0>>, <<0, 0, 0, 1>> >>

\* output, with the frames of the first n views
Manifest(n) ==
  [w |-> HW[2], h |-> HW[1], from_na |-> TRUE, n2w |-> Identity4,
   frames |-> [k \in 1..n |-> Frame(k - 1)]]

\* The manifest: globals, the camera-count assertion, the frames, the dump.
EmitManifest ==
  /\ pc = "loop"
  /\ i >= Len(all_masks)
  /\ LET mask_num == Len(ListDir(inputFolder.mask))
         camera_num == Len(intrinsics_all)
     IN
     IF HW = <<>> THEN
       /\ pc' = "raised" /\ err' = "NameError"
       /\ UNCHANGED transform_json
     ELSE IF n_images = 0 THEN
       \* dataset.scale_mats_np[0] of an empty array
       /\ pc' = "raised" /\ err' = "IndexError"
       /\ UNCHANGED transform_json
     ELSE IF mask_num # camera_num THEN
       /\ pc' = "raised" /\ err' = "AssertionError"
       /\ UNCHANGED transform_json
     ELSE IF mask_num > Len(AlbedoListing) \/ mask_num > Len(inputFolder.normal)
             \/ mask_num > Len(pose_all) THEN
       /\ pc' = "raised" /\ err' = "IndexError"
       /\ UNCHANGED transform_json
     ELSE
       /\ transform_json' = DumpJson(transform_json, Manifest(mask_num))
       /\ pc' = "done" /\ err' = err
  /\ UNCHANGED <<cameras_file, last_exit, envVars, runs, parseVars, prev_parse, listVars, i, HW,
                 albedos_out, normals_out>>

\* The process is stopped during its writes.
Kill ==
  /\ pc = "loop_normal" \/ (pc = "loop" /\ i > 0)
  /\ pc' = "killed"
  /\ UNCHANGED <<cameras_file, last_exit, envVars, err, runs, parseVars, prev_parse, listVars, i, HW,
                 outVars>>

\* The script is invoked again with the same arguments: only the files remain.
Rerun ==
  /\ pc \in {"done", "killed"} \/ (pc = "raised" /\ all_masks # <<>>)
  /\ runs < MaxRuns
  /\ runs' = runs + 1
  /\ pc' = "Dataset"
  /\ err' = "none"
  /\ lines' = <<>> /\ n_images' = 0 /\ n_cameras' = 0 /\ current_idx' = 0
  /\ focal_lengths' = <<>> /\ intrinsics_all' = <<>> /\ pose_all' = <<>>
  /\ all_images_albedo' = <<>> /\ all_images_normal' = <<>> /\ all_masks' = <<>>
  /\ all_masks_certainty' = <<>> /\ certainty_is_mask' = FALSE
  /\ i' = 0 /\ HW' = <<>>
  /\ last_exit' = pc
  /\ UNCHANGED <<cameras_file, envVars, prev_parse, outVars>>

\* The camera file gets one more blank or comment line and is parsed again.
EditAndReparse ==
  /\ pc = "listdir"
  /\ cameras_file.ins = <<>>
  /\ WellFormed(cameras_file.blocks)
  /\ \E p \in Len(HeaderLines(0))..Len(FileContent), l \in {BlankLine, HashLine} :
       cameras_file' = [cameras_file EXCEPT !.ins = <<p, l>>]
  /\ prev_parse' = <<intrinsics_all, pose_all>>
  /\ pc' = "Dataset"
  /\ n_cameras' = 0 /\ current_idx' = 0
  /\ UNCHANGED <<last_exit, envVars, err, runs, lines, n_images, focal_lengths,
                 intrinsics_all, pose_all, listVars, i, HW, outVars>>

(* --------------------------- specifications ---------------------------- *)
InitLocals ==
  /\ pc = "Dataset" /\ err = "none" /\ runs = 1 /\ last_exit = "none"
  /\ lines = <<>> /\ n_images = 0 /\ n_cameras = 0 /\ current_idx = 0
  /\ focal_lengths = <<>> /\ intrinsics_all = <<>> /\ pose_all = <<>>
  /\ prev_parse = <<>>
  /\ all_images_albedo = <<>> /\ all_images_normal = <<>> /\ all_masks = <<>>
  /\ all_masks_certainty = <<>> /\ certainty_is_mask = FALSE
  /\ i = 0 /\ HW = <<>>
  /\ albedos_out = <<>> /\ normals_out = <<>> /\ transform_json = <<>>

DeclaredCounts == {0, MaxBlocks}

\* n well-formed records after the blank line that follows the count line
GoodBlocks(n) ==
  <<[kind |-> "blank", cam |-> 1]>>
    \o [j \in 1..n |-> [kind |-> "good", cam |-> ((j - 1) % NCams) + 1]]

ConverterFiles ==
  {GoodBlocks(n) \o tail :
     n \in 0..(MaxViews + 1),
     tail \in {<<>>, <<[kind |-> "badT", cam |-> 1]>>, <<[kind |-> "badFocal", cam |-> 1]>>}}

Longer(n, d) == IF n + d < 0 THEN 0 ELSE n + d

\* The converter over a folder: any mask directory, the other directories
\* one entry shorter, as long or one entry longer than it.
Init ==
  /\ InitLocals
  /\ \E bs \in ConverterFiles :
       cameras_file = [declared |-> Len(RecordCams(bs)), blocks |-> bs, ins |-> <<>>]
  /\ \E nPng \in 0..MaxViews, extra \in 0..1, dn \in -1..1, da \in -2..1, dc \in -2..1 :
       /\ numpy_promotes \in (IF da > -2 THEN {TRUE} ELSE BOOLEAN)
       /\ inputFolder =
         [mask |-> MaskDir(nPng, extra),
          normal |-> NormalDir(Longer(nPng + extra, dn)),
          albedo_exists |-> da > -2,
          albedo |-> IF da > -2 THEN AlbedoDir(Longer(nPng + extra, da)) ELSE <<>>,
          certainty_exists |-> dc > -2,
          certainty |-> IF dc > -2 THEN CertaintyDir(Longer(nPng + extra, dc)) ELSE <<>>]

Next ==
  \/ DatasetInit
  \/ FindStart
  \/ SkipLine
  \/ ParseRecord
  \/ EndOfFile
  \/ ParseEnd
  \/ ListDirs
  \/ LoopAlbedo
  \/ LoopNormal
  \/ EmitManifest
  \/ Kill
  \/ Rerun

Spec == Init /\ [][Next]_vars

\* The parser over any camera file, for a folder of n mask images.
InitParse ==
  /\ InitLocals
  /\ \E bs \in BlockSeqs, d \in DeclaredCounts :
       cameras_file = [declared |-> d, blocks |-> bs, ins |-> <<>>]
  /\ numpy_promotes = TRUE
  /\ \E n \in 0..MaxViews :
       inputFolder =
         [mask |-> MaskDir(n, 0), normal |-> <<>>, albedo_exists |-> FALSE,
          albedo |-> <<>>, certainty_exists |-> FALSE, certainty |-> <<>>]

NextParse ==
  \/ DatasetInit
  \/ FindStart
  \/ SkipLine
  \/ ParseRecord
  \/ EndOfFile
  \/ ParseEnd
  \/ EditAndReparse

SpecParse == InitParse /\ [][NextParse]_vars

(* ------------------------- claims on the parser ------------------------ *)
\* The cameras the file's records were written from, in file order.
FileCam(j) == Cams[RecordCams(cameras_file.blocks)[j].cam]
NRecords == Len(RecordCams(cameras_file.blocks))
ParseOver == pc \in {"parse_end", "listdir", "raised"}
Unedited == cameras_file.ins = <<>>

\* C2: for every record of a file that follows the record layout, the line
\* re-read at current_idx - 7 is the camera-position line C, so the pose's
\* translation column is -R @ C.
C2_PoseFromPosition ==
  (ParseOver /\ Unedited /\ WellFormed(cameras_file.blocks)) =>
    \A j \in 1..Len(pose_all) :
      \A r \in 1..3 : pose_all[j][r][4] = -Dot(FileCam(j).R[r], FileCam(j).C)

\* C3: a well-formed file of N >= 1 records yields exactly N intrinsic/pose
\* pairs in file order, whatever count the file declares; intrinsic i has
\* diag(focal_i, focal_i) top left, the i-th principal point in column 2 and
\* 1 at [2][2].
C3_OnePairPerRecord ==
  (ParseOver /\ Unedited /\ WellFormed(cameras_file.blocks)) =>
    /\ Len(intrinsics_all) = NRecords
    /\ Len(pose_all) = NRecords
    /\ \A j \in 1..NRecords :
         LET K == intrinsics_all[j] IN
         /\ K[1][1] = FileCam(j).f /\ K[1][2] = 0
         /\ K[2][1] = 0 /\ K[2][2] = FileCam(j).f
         /\ K[1][3] = FileCam(j).px /\ K[2][3] = FileCam(j).py
         /\ K[3][3] = 1

\* C3 witness: two records of different cameras parsed from a file whose
\* declared count is not 2.
C3_Witness ==
  /\ pc = "listdir" /\ Unedited /\ WellFormed(cameras_file.blocks)
  /\ NRecords = 2 /\ cameras_file.declared # 2
  /\ Len(intrinsics_all) = 2
  /\ FileCam(1) # FileCam(2)

\* Block b holds the first record that raises: only well-formed records,
\* blank lines and comments precede it.
FirstBadAt(b) ==
  /\ b \in 1..Len(cameras_file.blocks)
  /\ \/ cameras_file.blocks[b].kind \in {"badFocal", "badT", "badRot"}
     \/ cameras_file.blocks[b].kind = "short" /\ b = Len(cameras_file.blocks)
  /\ \A j \in 1..(b - 1) : cameras_file.blocks[j].kind \in {"good", "blank", "hash"}
RecordsBefore(b) ==
  Cardinality({j \in 1..(b - 1) : cameras_file.blocks[j].kind = "good"})

\* C8: if record k is the first to raise, both lists hold exactly the k
\* records before it and the only error that can follow is the count-mismatch
\* ValueError, raised exactly when k differs from the number of mask images.
C8_TruncatedAtFirstBad ==
  \A b \in 1..Len(cameras_file.blocks) :
    (pc \in {"listdir", "raised"} /\ Unedited /\ FirstBadAt(b)) =>
      /\ Len(intrinsics_all) = RecordsBefore(b)
      /\ Len(pose_all) = RecordsBefore(b)
      /\ (pc = "raised") <=> (RecordsBefore(b) # n_images)
      /\ pc = "raised" => err = "ValueError"

\* The insertion points at which the parser is between records: before the
\* first line of a block, after the last line of a record, the end of the file.
BlockStart(b) ==
  Len(HeaderLines(0)) + Len(Flatten(SubSeq(cameras_file.blocks, 1, b - 1)))
BetweenRecords(p) ==
  \E b \in 1..(Len(cameras_file.blocks) + 1) :
    \/ p = BlockStart(b)
    \/ /\ b <= Len(cameras_file.blocks)
       /\ cameras_file.blocks[b].kind = "good"
       /\ p = BlockStart(b) + Len(RecordLines(Cams[1]))
Reparsed == pc \in {"listdir", "raised"} /\ ~Unedited

\* C9 as stated: a blank or '#' line inserted at any position after the count
\* line of a well-formed file leaves the parsed pairs unchanged.
C9_AnyInsertionHarmless ==
  Reparsed => <<intrinsics_all, pose_all>> = prev_parse

\* C9 amended: a blank or '#' line inserted between records (before a
\* record's first line, after its last line, next to another blank or comment
\* line, at the end of the file) leaves the parsed pairs unchanged.
C9_InsertionBetweenRecordsHarmless ==
  (Reparsed /\ BetweenRecords(cameras_file.ins[1])) =>
    <<intrinsics_all, pose_all>> = prev_parse

\* C9 witness: a comment line put between two records, both parsed again.
C9_Witness ==
  /\ pc = "listdir" /\ ~Unedited
  /\ cameras_file.ins[2] = HashLine
  /\ BetweenRecords(cameras_file.ins[1])
  /\ cameras_file.ins[1] > Len(HeaderLines(0))
  /\ cameras_file.ins[1] < Len(FileLines(0, cameras_file.blocks))
  /\ Len(pose_all) = 2
  /\ <<intrinsics_all, pose_all>> = prev_parse

(* ------------------------ claims on the converter ---------------------- *)
NMasks == Len(inputFolder.mask)
InParser == pc \in {"Dataset", "find_start", "parse_loop", "parse_end"}
NoOutput ==
  DOMAIN albedos_out = {} /\ DOMAIN normals_out = {} /\ transform_json = <<>>
\* The directory the confidence of a view comes from.
ConfidenceDir ==
  IF inputFolder.certainty_exists THEN inputFolder.certainty ELSE inputFolder.mask
AlbedoWritten(k) == k <= Len(AlbedoListing) /\ AlbedoListing[k] \in DOMAIN albedos_out
NormalWritten(k) ==
  k <= Len(inputFolder.normal) /\ inputFolder.normal[k].name \in DOMAIN normals_out
AlbedoOut(k) == albedos_out[AlbedoListing[k]]
NormalOut(k) == normals_out[inputFolder.normal[k].name]
Views == 1..(NMasks + 1)

\* C1: when the number of mask images (the *.png glob or the whole listing
\* of mask/) differs from the number of parsed cameras (one intrinsic and one
\* pose each), the run does not complete and has written no output file.
C1_NoOutputOnCountMismatch ==
  (runs = 1 /\ ~InParser /\ Len(intrinsics_all) = Len(pose_all)
     /\ (n_images # Len(pose_all) \/ NMasks # Len(pose_all))) =>
    (pc # "done" /\ NoOutput)

\* C4: a successful run over N views leaves N frames, frame i carrying the
\* i-th parsed intrinsic and pose and the names of the i-th albedo and normal
\* output; albedos/ and normals/ hold N four-channel images each and every
\* path of a frame is a written file.
C4_ManifestMatchesViews ==
  pc = "done" =>
    /\ Len(pose_all) = NMasks /\ Len(intrinsics_all) = NMasks
    /\ Len(transform_json.frames) = NMasks
    /\ \A k \in 1..NMasks :
         LET f == transform_json.frames[k] IN
         /\ f.intrinsic_matrix = intrinsics_all[k]
         /\ f.intrinsic_matrix[1][1] = FileCam(k).f
         /\ f.transform_matrix = pose_all[k]
         /\ f.albedo_path = <<"albedos", AlbedoListing[k]>>
         /\ f.normal_path = <<"normals", inputFolder.normal[k].name>>
         /\ f.albedo_path[2] \in DOMAIN albedos_out
         /\ f.normal_path[2] \in DOMAIN normals_out
    /\ Cardinality(DOMAIN albedos_out) = NMasks
    /\ Cardinality(DOMAIN normals_out) = NMasks
    /\ \A nm \in DOMAIN albedos_out : Len(albedos_out[nm].px) = 4
    /\ \A nm \in DOMAIN normals_out : Len(normals_out[nm].px) = 4

\* C4 witness: a first run over two views of different cameras is done.
C4_Witness ==
  /\ pc = "done" /\ runs = 1 /\ NMasks = 2
  /\ Len(transform_json.frames) = 2
  /\ transform_json.frames[1].intrinsic_matrix # transform_json.frames[2].intrinsic_matrix

\* out is 0 or 65535, and 65535 exactly above the threshold of src's depth
Binary16(src, out) ==
  /\ out \in {0, 65535}
  /\ src.depth = 8 => (out = 65535 <=> src.px[1] > 125)
  /\ src.depth # 8 => (out = 65535 <=> src.px[1] > 30000)

\* C5: every repacked mask and mask-confidence value is 0 or 65535: 65535
\* exactly above 125 for an 8-bit source and exactly above 30000 otherwise.
C5_MaskThresholds ==
  \A k \in Views :
    /\ NormalWritten(k) => Binary16(inputFolder.mask[k].img, NormalOut(k).px[4])
    /\ AlbedoWritten(k) => Binary16(ConfidenceDir[k].img, AlbedoOut(k).px[4])

\* C5 witness: the four values at the thresholds have been repacked.
C5_Witness ==
  /\ \E k \in Views : /\ NormalWritten(k)
                       /\ inputFolder.mask[k].img = [depth |-> 8, px |-> <<125>>]
                       /\ NormalOut(k).px[4] = 0
  /\ \E k \in Views : /\ NormalWritten(k)
                       /\ inputFolder.mask[k].img.depth = 8
                       /\ inputFolder.mask[k].img.px[1] = 126
                       /\ NormalOut(k).px[4] = 65535
  /\ \E k \in Views : /\ AlbedoWritten(k)
                       /\ ConfidenceDir[k].img = [depth |-> 16, px |-> <<30000>>]
                       /\ AlbedoOut(k).px[4] = 0
  /\ \E k \in Views : /\ AlbedoWritten(k)
                       /\ ConfidenceDir[k].img.depth = 16
                       /\ ConfidenceDir[k].img.px[1] = 30001
                       /\ AlbedoOut(k).px[4] = 65535

\* The source image at 16 bits, and the mask at 0 or 65535.
Scaled16(img) == [c \in 1..3 |-> IF img.depth = 8 THEN img.px[c] * 257 ELSE img.px[c]]
Thresholded(img) ==
  IF (img.depth = 8 /\ img.px[1] > 125) \/ (img.depth # 8 /\ img.px[1] > 30000)
  THEN 65535 ELSE 0

\* C6: channels 0-2 of an albedos/ image are the rescaled albedo (white when
\* there is no albedo directory) and channel 3 the thresholded confidence;
\* channels 0-2 of a normals/ image are the rescaled normal and channel 3 the
\* thresholded mask; without a mask-confidence directory the two channels 3
\* of a view are equal.
C6_PackedChannels ==
  \A k \in Views :
    /\ AlbedoWritten(k) =>
         /\ SubSeq(AlbedoOut(k).px, 1, 3) =
              (IF inputFolder.albedo_exists THEN Scaled16(inputFolder.albedo[k].img)
               ELSE <<65535, 65535, 65535>>)
         /\ AlbedoOut(k).px[4] = Thresholded(ConfidenceDir[k].img)
    /\ NormalWritten(k) =>
         /\ SubSeq(NormalOut(k).px, 1, 3) = Scaled16(inputFolder.normal[k].img)
         /\ NormalOut(k).px[4] = Thresholded(inputFolder.mask[k].img)
    /\ (AlbedoWritten(k) /\ NormalWritten(k) /\ ~inputFolder.certainty_exists) =>
         AlbedoOut(k).px[4] = NormalOut(k).px[4]

\* C6 witness: two views packed from 8-bit and 16-bit sources with the
\* confidence read from the mask directory.
C6_Witness ==
  /\ pc = "done" /\ NMasks = 2
  /\ inputFolder.albedo_exists /\ ~inputFolder.certainty_exists
  /\ \E k \in 1..2 : inputFolder.albedo[k].img.depth = 8 /\ AlbedoOut(k).px[1] = 65535
  /\ \E k \in 1..2 : AlbedoOut(k).px[4] = 65535 /\ NormalOut(k).px[4] = 65535
  /\ \E k \in 1..2 : AlbedoOut(k).px[4] = 0

\* The files one complete run over the input folder writes.
OneRunAlbedos ==
  [nm \in {AlbedoListing[k] : k \in 1..NMasks} |->
     ImageAlbedo((CHOOSE k \in 1..NMasks : AlbedoListing[k] = nm) - 1)]
OneRunNormals ==
  [nm \in {inputFolder.normal[k].name : k \in 1..NMasks} |->
     ImageNormal((CHOOSE k \in 1..NMasks : inputFolder.normal[k].name = nm) - 1)]
OneRunManifest ==
  [w |-> 1, h |-> 1, from_na |-> TRUE, n2w |-> Identity4,
   frames |-> [k \in 1..NMasks |-> Frame(k - 1)]]

\* C7: a run that completes, be it the first or one that follows a completed
\* or an interrupted run over the same input, leaves in the output folder
\* exactly the files one complete run writes.
C7_RerunIdempotent ==
  pc = "done" =>
    /\ albedos_out = OneRunAlbedos
    /\ normals_out = OneRunNormals
    /\ transform_json = OneRunManifest

\* C7 witness: a second run is done after the first was stopped between the
\* two writes of a view or after a view.
C7_Witness ==
  pc = "done" /\ runs = 2 /\ last_exit = "killed" /\ NMasks = 2

\* The mask count equals the camera count, for at least one view.
CountsAgree ==
  /\ ~InParser /\ NMasks >= 1
  /\ n_images = NMasks /\ Len(pose_all) = NMasks /\ Len(intrinsics_all) = NMasks
OtherLengths ==
  {Len(inputFolder.normal)}
    \cup (IF inputFolder.albedo_exists THEN {Len(inputFolder.albedo)} ELSE {})
    \cup (IF inputFolder.certainty_exists THEN {Len(inputFolder.certainty)} ELSE {})
\* No albedo directory, an 8-bit normal image and no promotion of uint8 * 65535.
WhiteSynthesisRaises ==
  /\ ~inputFolder.albedo_exists /\ ~numpy_promotes
  /\ \E k \in 1..NMasks :
       k <= Len(inputFolder.normal) /\ inputFolder.normal[k].img.depth = 8
IteratedAllMasks ==
  /\ i = NMasks
  /\ Len(transform_json.frames) = NMasks
  /\ \A k \in 1..NMasks :
       /\ transform_json.frames[k].albedo_path[2] = AlbedoListing[k]
       /\ transform_json.frames[k].normal_path[2] = inputFolder.normal[k].name

\* C10 as stated: with the mask count equal to the camera count and another
\* listing of a different length, longer or shorter, no error is raised and
\* the run ends with one frame per mask.
C10_OtherLengthsNeverMatter ==
  (CountsAgree /\ \E n \in OtherLengths : n # NMasks) =>
    (pc # "raised" /\ (pc = "done" => IteratedAllMasks))

\* C10 amended: the other listings are never compared with the mask listing.
\* When none is shorter (and the white albedo can be made), a longer one
\* raises no error: exactly len(mask listing) views are paired by sorted index
\* and the manifest has one frame per mask.  When one is shorter, the loop
\* raises at the first missing index and no manifest is written.
C10_LongerListingsIgnored ==
  /\ (CountsAgree /\ (\A n \in OtherLengths : n >= NMasks)
        /\ (\E n \in OtherLengths : n > NMasks) /\ ~WhiteSynthesisRaises) =>
       (pc # "raised" /\ (pc = "done" => IteratedAllMasks))
  /\ (CountsAgree /\ \E n \in OtherLengths : n < NMasks) =>
       /\ pc # "done" /\ transform_json = <<>>
       /\ pc = "raised" => err \in {"IndexError", "OverflowError"}

\* C10 witness: a run over two masks and three normal images is done.
C10_Witness ==
  /\ pc = "done" /\ CountsAgree /\ NMasks = 2
  /\ Len(inputFolder.normal) = 3
  /\ IteratedAllMasks

====
